---- MODULE Spec2Model ----
(***************************************************************************)
(* State-machine model of DistributedCodeIndexer (src/src/distributed_     *)
(* indexer.py) and of the records of src/src/distributed_models.py.        *)
(*                                                                         *)
(* A call of index_repository is modelled with an explicit call stack for  *)
(* the recursion of _index_directory.  The source tree, the outcome of     *)
(* every call to the text-completion backend and every I/O failure are     *)
(* inputs chosen by the environment.                                       *)
(*                                                                         *)
(* Spec follows one call.  SpecRerun follows a second call on the same     *)
(* indexer, and SpecHang adds a backend call that never returns, under     *)
(* weak fairness of the program's steps.                                   *)
(*                                                                         *)
(* Paths are sequences of path components.  Texts produced by the code are *)
(* tuples that keep the numbers the code formats into them.                *)
(***************************************************************************)
EXTENDS Naturals, Sequences, FiniteSets, TLC

(***************************************************************************)
(* Bounds of the model.                                                    *)
(***************************************************************************)
\* queries made of the agent
MaxQueries == 2
\* cat commands the bash tool runs for one query
MaxReads == 2
\* subdirectories of the root of a wide source tree
WideSubdirs == 6
\* depth of the chain of directories of a deep source tree
ChainDepth == 3
\* directories of a source tree, the root included
MaxDirs == 3
\* nesting depth of the directories below the root
MaxDepth == 2
\* files of a source tree (all of them may sit in one directory)
MaxFiles == 2
\* I/O and backend failures the environment injects in one run
MaxFaults == 1
\* largest max_workers given to the constructor
MaxWorkers == 2

(***************************************************************************)
(* Values.                                                                 *)
(***************************************************************************)
\* Python's None.  Paths, digests and texts are tuples, and so is None.
None == <<"None">>
\* no DirectoryIndex / RepositoryIndex object held
NoIndex == [kind |-> "none"]
\* the None _index_python_file returns in place of a FileMetadata
NoFile == [file_path |-> None]

RepoRoot == <<"repo">>
OutputRoot == <<"out">>

\* Every entry name of the modelled file systems, in the order of Python's
\* sorted() on str (code points: '.' < 'a' < 'b' < ... ).
SortedNames ==
  <<".git", "a.py", "b.py", "c.py", "d.py",
    "d1", "d2", "d3", "d4", "d5", "d6", "d7", "d8",
    "pkg", "repo_index.json", "sub">>
AllNames == { SortedNames[k] : k \in 1..Len(SortedNames) }

\* names of the directories a source tree may hold
DirNames == {".git", "pkg", "repo_index.json", "sub"}
\* names of the files of a directory, in the order they are given out
FileNames == <<"a.py", "b.py", "c.py", "d.py">>

\* item.startswith('.')
StartsWithDot(item) == item \in {".git"}
\* item.endswith('.py')
EndsWithPy(item) == item \in {"a.py", "b.py", "c.py", "d.py"}
\* the list literal of the ignore test
IgnoreList == {"node_modules", "__pycache__", "venv", ".venv", "dist", "build"}
\* item.startswith('.') or item in [...]
IsIgnored(item) == StartsWithDot(item) \/ item \in IgnoreList

(***************************************************************************)
(* File contents.  A content kind fixes the bytes of a file, hence its     *)
(* digest, its number of lines and what ast.parse makes of it.             *)
(*   "cls": one class with two methods and one top-level function          *)
(*   "fn" : one top-level function                                         *)
(*   "bad": text that ast.parse rejects with SyntaxError                   *)
(*   "deep": one assignment whose expression nests deeper than the parser  *)
(*           can follow (x = 1+1+...+1); ast.parse raises RecursionError   *)
(***************************************************************************)
Kinds == {"cls", "fn", "bad", "deep"}

\* hashlib.md5(f.read()).hexdigest() of the content
ContentDigest(k) == <<"md5", k>>

\* len(content.splitlines())
ContentLines(k) ==
  CASE k = "cls" -> 3 [] k = "fn" -> 1 [] k = "bad" -> 2 [] k = "deep" -> 1

\* the exception ast.parse(content) raises, if any
ParseError(k) ==
  CASE k = "bad" -> "SyntaxError" [] k = "deep" -> "RecursionError" [] OTHER -> "none"

\* ast.parse(content) succeeds
Parses(k) == ParseError(k) = "none"

\* the top-level elements the extraction loop appends, with len(children)
ContentElements(k) ==
  CASE k = "cls" -> << [element_type |-> "class", children |-> 2],
                       [element_type |-> "function", children |-> 0] >>
    [] k = "fn"  -> << [element_type |-> "function", children |-> 0] >>
    [] k = "bad" -> << >>
    [] k = "deep" -> << >>

(***************************************************************************)
(* Source trees: a prefix-closed set of directory paths (relative to the   *)
(* repository root, <<>> being the root) and the content kinds of the      *)
(* files of each directory, the j-th file being named FileNames[j].        *)
(***************************************************************************)
RECURSIVE Grow(_, _)
Grow(S, k) ==
  IF k = 0 THEN {S}
  ELSE {S} \cup UNION { Grow(S \cup {Append(d, n)}, k - 1) :
                          <<d, n>> \in { x \in S \X DirNames :
                                           /\ Len(x[1]) < MaxDepth
                                           /\ Append(x[1], x[2]) \notin S } }

DirSets == Grow({<< >>}, MaxDirs - 1)

KindSeqs == UNION { [1..n -> Kinds] : n \in 0..MaxFiles }

RECURSIVE SumLen(_, _)
SumLen(f, S) ==
  IF S = {} THEN 0
  ELSE LET d == CHOOSE x \in S : TRUE IN Len(f[d]) + SumLen(f, S \ {d})

Trees ==
  UNION { { [dirs |-> S, files |-> f] :
              f \in { g \in [S -> KindSeqs] : SumLen(g, S) <= MaxFiles } } :
          S \in DirSets }

(***************************************************************************)
(* Larger source trees, with at most MaxFiles files, each of one function  *)
(* and alone in its directory: a root with WideSubdirs subdirectories, and *)
(* a chain of ChainDepth directories below the root.                       *)
(***************************************************************************)
WideNames == <<"d1", "d2", "d3", "d4", "d5", "d6", "d7", "d8">>
WideDirs == {<< >>} \cup { <<WideNames[k]>> : k \in 1..WideSubdirs }

RECURSIVE ChainPath(_)
ChainPath(n) ==
  IF n = 0 THEN << >>
  ELSE Append(ChainPath(n - 1), IF n % 2 = 1 THEN "pkg" ELSE "sub")
ChainDirs == { ChainPath(n) : n \in 0..ChainDepth }

OneFileIn(S, W) ==
  [dirs |-> S, files |-> [d \in S |-> IF d \in W THEN <<"fn">> ELSE << >>]]

LargeTrees ==
  { OneFileIn(WideDirs, W) :
      W \in { V \in SUBSET (WideDirs \ {<< >>}) : Cardinality(V) <= MaxFiles } }
  \cup
  { OneFileIn(ChainDirs, W) :
      W \in { V \in SUBSET ChainDirs : Cardinality(V) <= MaxFiles } }

(***************************************************************************)
(* Paths and the two file systems.                                         *)
(***************************************************************************)
\* os.path.join
Join(a, b) == a \o b

\* os.path.relpath(path, start), for a path at or below start
RelPath(path, start) ==
  IF path = start THEN <<".">> ELSE SubSeq(path, Len(start) + 1, Len(path))

\* os.path.basename / os.path.dirname
BaseName(path) == path[Len(path)]
DirName(path) == SubSeq(path, 1, Len(path) - 1)

\* the key of a source path in the tree: its components below the root
RelKey(path) == SubSeq(path, Len(RepoRoot) + 1, Len(path))

\* the non-empty prefixes of a path, the path included
Prefixes(path) == { SubSeq(path, 1, n) : n \in 1..Len(path) }

\* os.path.isdir / os.path.isfile on the source tree t
IsDir(t, path) ==
  /\ Len(path) >= Len(RepoRoot)
  /\ SubSeq(path, 1, Len(RepoRoot)) = RepoRoot
  /\ RelKey(path) \in t.dirs
IsFile(t, path) ==
  /\ Len(path) > Len(RepoRoot)
  /\ IsDir(t, DirName(path))
  /\ \E j \in 1..Len(t.files[RelKey(DirName(path))]) : FileNames[j] = BaseName(path)

\* the content kind of the source file at path
KindOf(t, path) ==
  LET fs == t.files[RelKey(DirName(path))]
      j == CHOOSE i \in 1..Len(fs) : FileNames[i] = BaseName(path)
  IN fs[j]

\* sorted(os.listdir(dir_path))
SortedListDir(t, dir_path) ==
  SelectSeq(SortedNames,
            LAMBDA n : IsDir(t, Join(dir_path, <<n>>)) \/ IsFile(t, Join(dir_path, <<n>>)))

\* The output file system: the directories made and the files written.
EmptyDisk == [dirs |-> {}, files |-> << >>]

\* os.makedirs(path, exist_ok=True) raises when a file is in the way
MakeDirsFails(d, path) == \E q \in Prefixes(path) : q \in DOMAIN d.files
MakeDirs(d, path) == [d EXCEPT !.dirs = @ \cup Prefixes(path)]

\* open(path, 'w') raises IsADirectoryError on a directory
OpenForWriteFails(d, path) == path \in d.dirs \/ DirName(path) \notin d.dirs
WriteFile(d, path, data) ==
  [d EXCEPT !.files = [q \in (DOMAIN @) \cup {path} |->
                         IF q = path THEN data ELSE @[q]]]

(***************************************************************************)
(* Records of distributed_models.py.                                       *)
(***************************************************************************)
NewFileMetadata(file_path, relative_path, total_lines) ==
  [file_path |-> file_path, relative_path |-> relative_path,
   summary |-> None, total_lines |-> total_lines, elements |-> << >>,
   file_hash |-> None]

NewSubdirectoryReference(name, path, relative_path, index_file_path, summary, files, subdirs) ==
  [dir_name |-> name, dir_path |-> path, relative_path |-> relative_path,
   index_file_path |-> index_file_path, summary |-> summary,
   file_count |-> files, subdir_count |-> subdirs]

NewDirectoryIndex(dir_path, relative_path, index_file_path, parent_index_path) ==
  [kind |-> "dir", dir_path |-> dir_path, relative_path |-> relative_path,
   index_file_path |-> index_file_path, summary |-> None,
   parent_index_path |-> parent_index_path, files |-> << >>,
   subdirectories |-> << >>, direct_file_count |-> 0, total_file_count |-> 0,
   total_lines |-> 0]

NewRepositoryIndex(name, repo_path, index_root_path, root_index_path) ==
  [kind |-> "repo", name |-> name, repo_path |-> repo_path,
   index_root_path |-> index_root_path, root_index_path |-> root_index_path,
   summary |-> None, architecture_description |-> None,
   primary_language |-> "python", total_files |-> 0, total_lines |-> 0,
   total_classes |-> 0, total_functions |-> 0, total_methods |-> 0,
   total_directories |-> 0]

\* model_dump() of a DirectoryIndex: file_hash is declared exclude=True
DumpFile(f) == [x \in (DOMAIN f) \ {"file_hash"} |-> f[x]]
ModelDump(dir_index) ==
  [dir_index EXCEPT !.files = [k \in DOMAIN @ |-> DumpFile(@[k])]]

\* DirectoryIndex(**json.load(f)): an absent file_hash takes its default
LoadFile(f) == [x \in (DOMAIN f) \cup {"file_hash"} |->
                  IF x \in DOMAIN f THEN f[x] ELSE None]
LoadDirectoryIndex(data) ==
  [data EXCEPT !.files = [k \in DOMAIN @ |-> LoadFile(@[k])]]

\* truth value of an Optional[str]: None and the empty text are false
Truthy(s) == s # None /\ s # <<"">>

(***************************************************************************)
(* DistributedCodeIndexer: the functions without side effects.             *)
(***************************************************************************)
\* the path the artifact directory of relative_path is made at
IndexDirPath(output_root, relative_path) ==
  IF relative_path = <<".">> THEN output_root
  ELSE Join(output_root, relative_path)

\* "Index file is always named index.json in its directory"
IndexFilePath(output_root, relative_path) ==
  Join(IndexDirPath(output_root, relative_path), <<"index.json">>)

\* os.path.join(output_dir, "repo_index.json")
RepoIndexPath(output_dir) == Join(output_dir, <<"repo_index.json">>)

\* _hash_file: the digest of the bytes, or of the path when reading fails
HashFile(file_path, k, read_ok) ==
  IF read_ok THEN ContentDigest(k) ELSE <<"md5 of path">> \o file_path

\* _index_python_file once the content has been read
IndexPythonFile(file_path, k, generate, cache, hash_read_ok) ==
  LET file_metadata ==
        NewFileMetadata(file_path, RelPath(file_path, RepoRoot), ContentLines(k))
      parsed == [file_metadata EXCEPT !.elements = ContentElements(k)]
      file_hash == HashFile(file_path, k, hash_read_ok)
  IN IF ~Parses(k) THEN file_metadata
     ELSE IF ~generate THEN parsed
     ELSE IF file_hash \in DOMAIN cache
          THEN [parsed EXCEPT !.summary = cache[file_hash]]
          ELSE [parsed EXCEPT !.file_hash = file_hash]

\* the subdirectory reference built from the index the recursion returned
MakeSubdirectoryReference(item, item_path, subdir_index) ==
  NewSubdirectoryReference(item, item_path, subdir_index.relative_path,
                           subdir_index.index_file_path, subdir_index.summary,
                           subdir_index.total_file_count,
                           Len(subdir_index.subdirectories))

\* a loop over the files that counts a file it could not read
AppendFileCountingSkipped(dir_index, file_metadata) ==
  IF file_metadata = NoFile
  THEN [dir_index EXCEPT !.direct_file_count = @ + 1]
  ELSE [dir_index EXCEPT !.files = Append(@, file_metadata),
                         !.direct_file_count = @ + 1]

\* "if file_metadata:" of the loop over the files: None is skipped
AppendFile(dir_index, file_metadata) ==
  IF file_metadata = NoFile THEN dir_index
  ELSE [dir_index EXCEPT !.files = Append(@, file_metadata),
                         !.direct_file_count = @ + 1]

RECURSIVE SumOver(_, _, _)
\* sum(f[field] for f in seq[n:])
SumOver(seq, field, n) ==
  IF n > Len(seq) THEN 0 ELSE seq[n][field] + SumOver(seq, field, n + 1)

\* a total_file_count that leaves the subdirectories out
TotalFileCountDirectOnly(dir_index) == dir_index.direct_file_count

\* total_file_count after the aggregation loop over the references
TotalFileCount(dir_index) ==
  dir_index.direct_file_count + SumOver(dir_index.subdirectories, "file_count", 1)

\* total_lines as the aggregation computes it
TotalLines(dir_index) == SumOver(dir_index.files, "total_lines", 1)

\* hasattr(f, 'file_hash'): file_hash is a declared field of FileMetadata
HasFileHash(f) == "file_hash" \in DOMAIN f

\* the positions in files of the files the batch submits
FilesToSummarize(files) ==
  SelectSeq([k \in 1..Len(files) |-> k],
            LAMBDA k : ~Truthy(files[k].summary) /\ HasFileHash(files[k]))

\* _generate_file_summary_sync calls the backend unless there are no elements
FileNeedsBackend(file_metadata) == file_metadata.elements # << >>

\* response.choices[0].message.content.strip() of a well-formed response;
\* a content of white space only strips to the empty text
ResponseText(resp) == IF resp = "" THEN <<"">> ELSE <<"llm", resp>>

\* an exception handler that yields no text
FileFallbackNoText(file_metadata) == None

\* the fallback of generate_one_summary
FileFallback(file_metadata) ==
  <<"Contains", Len(file_metadata.elements), "code elements">>

\* generate_one_summary: resp is the backend's text, or "fail"
GenerateOneSummary(file_metadata, resp) ==
  IF ~FileNeedsBackend(file_metadata)
  THEN <<"Python file with", file_metadata.total_lines, "lines">>
  ELSE IF resp = "fail" THEN FileFallback(file_metadata)
  ELSE ResponseText(resp)

\* a result that names the first file of the directory, whatever file it is for
WorkerResultFirstFile(k, file_metadata, resp) ==
  [k |-> 1, file_hash |-> file_metadata.file_hash,
   summary |-> GenerateOneSummary(file_metadata, resp)]

\* the tuple (file_hash, summary, file_metadata) generate_one_summary returns
\* for the file at position k
WorkerResult(k, file_metadata, resp) ==
  [k |-> k, file_hash |-> file_metadata.file_hash,
   summary |-> GenerateOneSummary(file_metadata, resp)]

\* seq[:n]
Take(seq, n) == SubSeq(seq, 1, IF Len(seq) < n THEN Len(seq) ELSE n)

\* the entries of the prompt of _generate_directory_summary
DirFileSummaries(dir_index) ==
  SelectSeq(Take(dir_index.files, 10), LAMBDA f : Truthy(f.summary))
DirSubdirSummaries(dir_index) ==
  SelectSeq(Take(dir_index.subdirectories, 5), LAMBDA r : Truthy(r.summary))

DirNeedsBackend(dir_index) ==
  DirFileSummaries(dir_index) # << >> \/ DirSubdirSummaries(dir_index) # << >>

DirFallback(dir_index) ==
  <<"Directory with", Len(dir_index.files), "files and",
    Len(dir_index.subdirectories), "subdirectories">>

\* line 217, "dir_index.files or dir_index.subdirectories"
DirectoryHasFiles(dir_index) == dir_index.files # << >>
DirectoryHasContent(dir_index) ==
  dir_index.files # << >> \/ dir_index.subdirectories # << >>

\* line 217, the whole condition
SummarizesWithoutFlag(generate, dir_index) == DirectoryHasContent(dir_index)
SummarizesDirectory(generate, dir_index) ==
  generate /\ DirectoryHasContent(dir_index)

\* _generate_directory_summary
GenerateDirectorySummary(dir_index, resp) ==
  IF ~DirNeedsBackend(dir_index)
  THEN <<"Directory with", Len(dir_index.files), "files">>
  ELSE IF resp = "fail" THEN DirFallback(dir_index)
  ELSE ResponseText(resp)

RepoFallback(repo) == <<"A python repository with", repo.total_files, "files">>

\* _generate_repo_summary: the backend is always called
GenerateRepoSummary(repo, resp) ==
  IF resp = "fail" THEN RepoFallback(repo) ELSE ResponseText(resp)

(***************************************************************************)
(* _calculate_statistics.  Traverse returns the amounts traverse() adds to *)
(* the counters of repo_index for dir_index and everything below it, the   *)
(* subdirectories being loaded from the disk d; ok is FALSE when an open() *)
(* of a referenced artifact raises FileNotFoundError.                      *)
(***************************************************************************)
RECURSIVE CountElements(_, _, _)
\* the elements of type t in files[n:], or their children when kids is set
CountElements(files, t, kids) ==
  IF files = << >> THEN 0
  ELSE LET es == SelectSeq(Head(files).elements, LAMBDA e : e.element_type = t)
       IN (IF kids THEN SumOver(es, "children", 1) ELSE Len(es))
          + CountElements(Tail(files), t, kids)

ZeroStats ==
  [ok |-> TRUE, total_directories |-> 0, total_files |-> 0, total_lines |-> 0,
   total_classes |-> 0, total_functions |-> 0, total_methods |-> 0]

AddStats(a, b) ==
  [ok |-> a.ok /\ b.ok,
   total_directories |-> a.total_directories + b.total_directories,
   total_files |-> a.total_files + b.total_files,
   total_lines |-> a.total_lines + b.total_lines,
   total_classes |-> a.total_classes + b.total_classes,
   total_functions |-> a.total_functions + b.total_functions,
   total_methods |-> a.total_methods + b.total_methods]

\* a count of the functions that takes the methods of the classes along
OwnStatsMethodsAsFunctions(dir_index) ==
  [ok |-> TRUE, total_directories |-> 1,
   total_files |-> dir_index.direct_file_count,
   total_lines |-> SumOver(dir_index.files, "total_lines", 1),
   total_classes |-> CountElements(dir_index.files, "class", FALSE),
   total_functions |-> CountElements(dir_index.files, "function", FALSE)
                         + CountElements(dir_index.files, "class", TRUE),
   total_methods |-> CountElements(dir_index.files, "class", TRUE)]

\* what one call of traverse() adds for the directory itself
OwnStats(dir_index) ==
  [ok |-> TRUE, total_directories |-> 1,
   total_files |-> dir_index.direct_file_count,
   total_lines |-> SumOver(dir_index.files, "total_lines", 1),
   total_classes |-> CountElements(dir_index.files, "class", FALSE),
   total_functions |-> CountElements(dir_index.files, "function", FALSE),
   total_methods |-> CountElements(dir_index.files, "class", TRUE)]

\* a traversal that takes a missing artifact for an empty directory
MissingArtifactAsEmpty == ZeroStats

\* open() of a referenced artifact raises FileNotFoundError: the pass is over
MissingArtifact == [ZeroStats EXCEPT !.ok = FALSE]

RECURSIVE Traverse(_, _)
RECURSIVE TraverseRefs(_, _, _)
Traverse(dir_index, d) ==
  AddStats(OwnStats(dir_index), TraverseRefs(dir_index.subdirectories, 1, d))
TraverseRefs(refs, n, d) ==
  IF n > Len(refs) THEN ZeroStats
  ELSE IF refs[n].index_file_path \notin DOMAIN d.files
       THEN MissingArtifact
       ELSE LET sub == Traverse(LoadDirectoryIndex(d.files[refs[n].index_file_path]), d)
            IN IF sub.ok THEN AddStats(sub, TraverseRefs(refs, n + 1, d)) ELSE sub

\* repo_index with the counters the traversal leaves in it
WithStatistics(repo, st) ==
  [repo EXCEPT !.total_directories = st.total_directories,
               !.total_files = st.total_files,
               !.total_lines = st.total_lines,
               !.total_classes = st.total_classes,
               !.total_functions = st.total_functions,
               !.total_methods = st.total_methods]

(***************************************************************************)
(* State.                                                                  *)
(***************************************************************************)
VARIABLES
  tree,               \* the source tree below repo_path (an input)
  generate_summaries, \* the argument of index_repository (an input)
  max_workers,        \* self.max_workers (an input)
  pcMain,             \* the position of index_repository
  stack,              \* the frames of the active calls of _index_directory
  ret,                \* the DirectoryIndex the last finished call returned
  batch,              \* the thread pool of _batch_generate_file_summaries
  summary_cache,      \* self.summary_cache
  repo_index,         \* the RepositoryIndex of index_repository
  disk,               \* the file system below output_dir
  error,              \* the exception that ended index_repository, if any
  faults,             \* failures injected so far
  calls,              \* history: the file-level generator calls made
  failed,             \* history: the backend calls that failed
  written,            \* history: the artifact paths written, in order
  io_failed,          \* history: the listings and the reads of source files that failed
  answered,           \* history: what the generator answered for each file it was called on
  run,                \* the number of the current call of index_repository
  previous,           \* history: the file summaries the previous call persisted
  upper_calls,        \* history: the directory- and repository-level generator calls
  agent               \* distributed_agent.py: _files_investigated and the queries

vars == <<tree, generate_summaries, max_workers, pcMain, stack, ret, batch, summary_cache,
          repo_index, disk, error, faults, calls, failed, written,
          io_failed, answered, run, previous,
                 upper_calls, agent>>

\* texts the backend may answer with, per granularity
FileResponses == {"s1", "s2", ""}
DirResponses == {"d1"}
RepoResponses == {"r1"}

\* the entry of the history of failures for a backend call answered by resp
Failure(level, path, resp) ==
  IF resp = "fail" THEN {[level |-> level, path |-> path]} ELSE {}

\* the outcomes the environment may still choose for an operation that can fail
Outcomes(ok) == IF faults < MaxFaults THEN ok \cup {"fail"} ELSE ok
Cost(outcome) == IF outcome = "fail" THEN 1 ELSE 0

\* The pool of a batch, by the positions of the files in dir_index.files:
\* queue: submitted and waiting for a worker; running: in a worker; hung: in a
\* worker, in a backend call that never returns; finished: returned and not yet
\* yielded by as_completed.  History of the batch: todo (what was submitted),
\* before (the summary cache at the submission), cached (the files whose digest
\* was a key of the cache then).
NoBatch ==
  [queue |-> << >>, running |-> {}, hung |-> {}, finished |-> {}, cached |-> {},
   todo |-> << >>, before |-> << >>]

\* a pool that starts a thread for every submitted call
PoolUnbounded(b, w) == TRUE

\* ThreadPoolExecutor(max_workers=w) runs at most w calls at a time
PoolHasFreeWorker(b, w) == Cardinality(b.running \cup b.hung) < w

NewFrame(dir_path, parent_index_path) ==
  [pc |-> "enter", dir_path |-> dir_path, parent_index_path |-> parent_index_path,
   items |-> << >>, i |-> 1, dir_index |-> NoIndex]

Top == stack[Len(stack)]
WithTop(frame) == [stack EXCEPT ![Len(stack)] = frame]
Popped == SubSeq(stack, 1, Len(stack) - 1)

\* distributed_agent.py.  lists are the list objects made so far, global is
\* the one the module-level name _files_investigated is bound to; for each
\* query, pc is its position in DistributedCodeAgent.query, reads (history)
\* the files its own calls of the bash tool read with cat, and result the
\* list object it returned as files_investigated (0: none yet).
Queries == 1..MaxQueries
AgentFiles == {"a.py", "b.py"}
NoQueries ==
  [global |-> 1, lists |-> << << >> >>,
   pc |-> [q \in Queries |-> "idle"],
   reads |-> [q \in Queries |-> << >>],
   result |-> [q \in Queries |-> 0]]

\* DistributedCodeIndexer.__init__, and the file systems before the call
Constructed ==
  /\ pcMain = "start"
  /\ stack = << >>
  /\ ret = NoIndex
  /\ batch = NoBatch
  /\ summary_cache = << >>
  /\ repo_index = NoIndex
  /\ disk = EmptyDisk
  /\ error = "none"
  /\ faults = 0
  /\ calls = {}
  /\ failed = {}
  /\ written = << >>
  /\ io_failed = {}
  /\ answered = << >>
  /\ run = 1
  /\ previous = << >>
  /\ upper_calls = {}
  /\ agent = NoQueries

Init ==
  /\ tree \in Trees
  /\ generate_summaries \in BOOLEAN
  /\ max_workers \in 1..MaxWorkers
  /\ Constructed

\* the same call on one of the larger trees
InitLarge ==
  /\ tree \in LargeTrees
  /\ generate_summaries \in BOOLEAN
  /\ max_workers \in 1..MaxWorkers
  /\ Constructed

\* an exception propagates out of index_repository
Raise(e) ==
  /\ pcMain' = "done"
  /\ error' = e
  /\ stack' = << >>

\* _index_directory returns dir_index to its caller
Return(dir_index) ==
  /\ stack' = Popped
  /\ ret' = dir_index
  /\ pcMain' = IF Len(stack) = 1 THEN "statistics" ELSE pcMain
  /\ error' = error

(***************************************************************************)
(* index_repository, lines 57-76: make output_dir, call _index_directory.  *)
(***************************************************************************)
IndexRepositoryStart ==
  /\ pcMain = "start"
  /\ disk' = MakeDirs(disk, OutputRoot)
  /\ stack' = << NewFrame(RepoRoot, None) >>
  /\ pcMain' = "indexing"
  /\ UNCHANGED <<tree, generate_summaries, max_workers, ret, batch, summary_cache, repo_index,
                 error, faults, calls, written, failed,
                 io_failed, answered, run, previous,
                 upper_calls, agent>>

(***************************************************************************)
(* _index_directory, lines 130-155: the artifact directory is made, the    *)
(* DirectoryIndex is created and the directory is listed.  A               *)
(* PermissionError of the listing returns the empty index at once.         *)
(***************************************************************************)
EnterDirectory ==
  /\ pcMain = "indexing" /\ stack # << >> /\ Top.pc = "enter"
  /\ LET dir_path == Top.dir_path
         relative_path == RelPath(dir_path, RepoRoot)
         index_dir_path == IndexDirPath(OutputRoot, relative_path)
         index_file_path == IndexFilePath(OutputRoot, relative_path)
         dir_index == NewDirectoryIndex(dir_path, relative_path, index_file_path,
                                        Top.parent_index_path)
     IN IF MakeDirsFails(disk, index_dir_path)
        THEN /\ Raise("OutputPersistError")
             /\ UNCHANGED <<disk, ret, faults, io_failed>>
        ELSE /\ disk' = MakeDirs(disk, index_dir_path)
             /\ \E listing \in Outcomes({"ok"}) :
                  /\ faults' = faults + Cost(listing)
                  /\ io_failed' = io_failed \cup
                       (IF listing = "fail" THEN {[op |-> "listdir", path |-> dir_path]}
                        ELSE {})
                  /\ IF listing = "fail"
                     THEN Return(dir_index)
                     ELSE /\ stack' = WithTop([Top EXCEPT
                                 !.pc = "files",
                                 !.items = SortedListDir(tree, dir_path),
                                 !.i = 1,
                                 !.dir_index = dir_index])
                          /\ UNCHANGED <<ret, pcMain, error>>
  /\ UNCHANGED <<tree, generate_summaries, max_workers, batch, summary_cache, repo_index,
                 calls, written, failed,
                 answered, run, previous,
                 upper_calls, agent>>

(***************************************************************************)
(* _index_directory, lines 158-170: one iteration of the loop over the     *)
(* files, with _index_python_file (lines 239-290) for an eligible file.    *)
(* reading: "ok", "fail" (open/read raises, the file is skipped) or        *)
(* "hash" (the second read, of _hash_file, raises).  An exception of       *)
(* ast.parse other than SyntaxError is caught nowhere and ends the run.    *)
(***************************************************************************)
IndexFileItem ==
  /\ pcMain = "indexing" /\ stack # << >> /\ Top.pc = "files"
  /\ Top.i <= Len(Top.items)
  /\ LET item == Top.items[Top.i]
         item_path == Join(Top.dir_path, <<item>>)
     IN IF IsIgnored(item) \/ ~(IsFile(tree, item_path) /\ EndsWithPy(item))
        THEN /\ stack' = WithTop([Top EXCEPT !.i = @ + 1])
             /\ UNCHANGED <<faults, io_failed, pcMain, error>>
        ELSE \E reading \in IF faults < MaxFaults THEN {"ok", "fail", "hash"}
                            ELSE {"ok"} :
               LET k == KindOf(tree, item_path)
                   file_metadata ==
                     IF reading = "fail" THEN NoFile
                     ELSE IndexPythonFile(item_path, k, generate_summaries,
                                          summary_cache, reading = "ok")
               IN /\ faults' = faults + (IF reading = "ok" THEN 0 ELSE 1)
                  /\ io_failed' = io_failed \cup
                       (IF reading = "fail" THEN {[op |-> "read", path |-> item_path]}
                        ELSE {})
                  /\ IF reading # "fail" /\ ParseError(k) \notin {"none", "SyntaxError"}
                     THEN Raise(ParseError(k))
                     ELSE /\ stack' = WithTop([Top EXCEPT
                                !.i = @ + 1,
                                !.dir_index = AppendFile(@, file_metadata)])
                          /\ UNCHANGED <<pcMain, error>>
  /\ UNCHANGED <<tree, generate_summaries, max_workers, ret, batch, summary_cache,
                 repo_index, disk, calls, written, failed,
                 answered, run, previous,
                 upper_calls, agent>>

\* the loop over the files is exhausted (line 172)
FilesDone ==
  /\ pcMain = "indexing" /\ stack # << >> /\ Top.pc = "files"
  /\ Top.i > Len(Top.items)
  /\ stack' = WithTop([Top EXCEPT !.pc = "subdirs", !.i = 1])
  /\ UNCHANGED <<tree, generate_summaries, max_workers, pcMain, ret, batch, summary_cache,
                 repo_index, disk, error, faults, calls, written, failed,
                 io_failed, answered, run, previous,
                 upper_calls, agent>>

(***************************************************************************)
(* _index_directory, lines 173-188: one iteration of the loop over the     *)
(* subdirectories, up to the recursive call.                               *)
(***************************************************************************)
SubdirItem ==
  /\ pcMain = "indexing" /\ stack # << >> /\ Top.pc = "subdirs"
  /\ Top.i <= Len(Top.items)
  /\ LET item == Top.items[Top.i]
         item_path == Join(Top.dir_path, <<item>>)
     IN IF IsIgnored(item) \/ ~IsDir(tree, item_path)
        THEN stack' = WithTop([Top EXCEPT !.i = @ + 1])
        ELSE stack' = Append(WithTop([Top EXCEPT !.pc = "ref"]),
                             NewFrame(item_path, Top.dir_index.index_file_path))
  /\ UNCHANGED <<tree, generate_summaries, max_workers, pcMain, ret, batch, summary_cache,
                 repo_index, disk, error, faults, calls, written, failed,
                 io_failed, answered, run, previous,
                 upper_calls, agent>>

\* lines 190-201: the reference to the subdirectory the call returned
AppendSubdirRef ==
  /\ pcMain = "indexing" /\ stack # << >> /\ Top.pc = "ref"
  /\ ret # NoIndex
  /\ LET item == Top.items[Top.i]
         subdir_ref == MakeSubdirectoryReference(item, Join(Top.dir_path, <<item>>), ret)
     IN stack' = WithTop([Top EXCEPT
          !.pc = "subdirs",
          !.i = @ + 1,
          !.dir_index.subdirectories = Append(@, subdir_ref)])
  /\ ret' = NoIndex
  /\ UNCHANGED <<tree, generate_summaries, max_workers, pcMain, batch, summary_cache,
                 repo_index, disk, error, faults, calls, written, failed,
                 io_failed, answered, run, previous,
                 upper_calls, agent>>

\* lines 203-209: the aggregation of the counts
Aggregate ==
  /\ pcMain = "indexing" /\ stack # << >> /\ Top.pc = "subdirs"
  /\ Top.i > Len(Top.items)
  /\ stack' = WithTop([Top EXCEPT
       !.pc = "batch",
       !.dir_index.total_file_count = TotalFileCount(Top.dir_index),
       !.dir_index.total_lines = TotalLines(Top.dir_index)])
  /\ UNCHANGED <<tree, generate_summaries, max_workers, pcMain, ret, batch, summary_cache,
                 repo_index, disk, error, faults, calls, written, failed,
                 io_failed, answered, run, previous,
                 upper_calls, agent>>

(***************************************************************************)
(* _batch_generate_file_summaries, lines 211-213 and 521-549.              *)
(***************************************************************************)
\* lines 523-544: the filter, and the submission of every file it keeps
BatchSubmit ==
  /\ pcMain = "indexing" /\ stack # << >> /\ Top.pc = "batch"
  /\ LET files == Top.dir_index.files
         todo == IF generate_summaries /\ files # << >>
                 THEN FilesToSummarize(files) ELSE << >>
     IN IF todo = << >>
        THEN /\ stack' = WithTop([Top EXCEPT !.pc = "dirsummary"])
             /\ UNCHANGED batch
        ELSE /\ stack' = WithTop([Top EXCEPT !.pc = "pool"])
             /\ batch' = [queue |-> todo, running |-> {}, hung |-> {}, finished |-> {},
                          cached |-> { k \in 1..Len(files) :
                            ContentDigest(KindOf(tree, files[k].file_path))
                              \in DOMAIN summary_cache },
                          todo |-> todo, before |-> summary_cache]
  /\ UNCHANGED <<tree, generate_summaries, max_workers, pcMain, ret,
                 summary_cache, repo_index, disk, error, faults, calls, written, failed,
                 io_failed, answered, run, previous,
                 upper_calls, agent>>

\* a free worker of the pool takes the oldest queued call of generate_one_summary
WorkerStart ==
  /\ pcMain = "indexing" /\ stack # << >> /\ Top.pc = "pool"
  /\ batch.queue # << >>
  /\ PoolHasFreeWorker(batch, max_workers)
  /\ LET k == Head(batch.queue)
         f == Top.dir_index.files[k]
     IN /\ batch' = [batch EXCEPT !.queue = Tail(@), !.running = @ \cup {k}]
        /\ calls' = calls \cup
             {[file_path |-> f.file_path,
               digest |-> ContentDigest(KindOf(tree, f.file_path)),
               cached |-> k \in batch.cached,
               backend |-> FileNeedsBackend(f)]}
  /\ UNCHANGED <<tree, generate_summaries, max_workers, pcMain, stack, ret,
                 summary_cache, repo_index, disk, error, faults, written, failed,
                 io_failed, answered, run, previous,
                 upper_calls, agent>>

\* what the backend may answer to the prompt made for file_metadata: the
\* prompt is made of the file's relative path, line count and elements, and a
\* prompt that was answered before is answered the same way again (within one
\* call of index_repository no file is submitted twice)
FileAnswers(file_metadata) ==
  IF file_metadata.file_path \in DOMAIN answered
  THEN {answered[file_metadata.file_path]}
  ELSE Outcomes(FileResponses)

\* lines 534-540: a running call of generate_one_summary returns its tuple
WorkerFinish ==
  /\ pcMain = "indexing" /\ stack # << >> /\ Top.pc = "pool"
  /\ \E k \in batch.running :
       LET f == Top.dir_index.files[k]
       IN \E resp \in IF FileNeedsBackend(f) THEN FileAnswers(f)
                      ELSE {"none"} :
            /\ faults' = faults + Cost(resp)
            /\ failed' = failed \cup Failure("file", f.file_path, resp)
            /\ answered' = IF FileNeedsBackend(f)
                           THEN [q \in (DOMAIN answered) \cup {f.file_path} |->
                                   IF q = f.file_path THEN resp ELSE answered[q]]
                           ELSE answered
            /\ batch' = [batch EXCEPT
                 !.running = @ \ {k},
                 !.finished = @ \cup {WorkerResult(k, f, resp)}]
  /\ UNCHANGED <<tree, generate_summaries, max_workers, pcMain, stack, ret,
                 summary_cache, repo_index, disk, error, calls, written,
                 io_failed, run, previous,
                 upper_calls, agent>>

\* lines 546-549: as_completed yields a finished future to the main thread
CollectResult ==
  /\ pcMain = "indexing" /\ stack # << >> /\ Top.pc = "pool"
  /\ \E r \in batch.finished :
       /\ batch' = [batch EXCEPT !.finished = @ \ {r}]
       /\ stack' = WithTop([Top EXCEPT !.dir_index.files[r.k].summary = r.summary])
       /\ summary_cache' = [h \in (DOMAIN summary_cache) \cup {r.file_hash} |->
                              IF h = r.file_hash THEN r.summary
                              ELSE summary_cache[h]]
  /\ UNCHANGED <<tree, generate_summaries, max_workers, pcMain, ret,
                 repo_index, disk, error, faults, calls, written, failed,
                 io_failed, answered, run, previous,
                 upper_calls, agent>>

\* every future has been yielded and the pool is shut down
BatchJoin ==
  /\ pcMain = "indexing" /\ stack # << >> /\ Top.pc = "pool"
  /\ batch.queue = << >> /\ batch.running = {} /\ batch.finished = {}
  /\ batch.hung = {}
  /\ batch' = NoBatch
  /\ stack' = WithTop([Top EXCEPT !.pc = "dirsummary"])
  /\ UNCHANGED <<tree, generate_summaries, max_workers, pcMain, ret,
                 summary_cache, repo_index, disk, error, faults, calls, written, failed,
                 io_failed, answered, run, previous,
                 upper_calls, agent>>

(***************************************************************************)
(* _index_directory, lines 215-229.                                        *)
(***************************************************************************)
\* lines 217-219, with _generate_directory_summary
DirectorySummary ==
  /\ pcMain = "indexing" /\ stack # << >> /\ Top.pc = "dirsummary"
  /\ LET dir_index == Top.dir_index
     IN IF SummarizesDirectory(generate_summaries, dir_index)
        THEN \E resp \in IF DirNeedsBackend(dir_index) THEN Outcomes(DirResponses)
                         ELSE {"none"} :
               /\ faults' = faults + Cost(resp)
               /\ failed' = failed \cup Failure("directory", dir_index.dir_path, resp)
               /\ upper_calls' = upper_calls \cup
                    IF DirNeedsBackend(dir_index)
                    THEN {[level |-> "directory", path |-> dir_index.dir_path]}
                    ELSE {}
               /\ stack' = WithTop([Top EXCEPT
                    !.pc = "save",
                    !.dir_index.summary = GenerateDirectorySummary(dir_index, resp)])
        ELSE /\ stack' = WithTop([Top EXCEPT !.pc = "save"])
             /\ UNCHANGED <<faults, failed, upper_calls>>
  /\ UNCHANGED <<tree, generate_summaries, max_workers, pcMain, ret, batch,
                 summary_cache, repo_index, disk, error, calls, written,
                 io_failed, answered, run, previous, agent>>

\* lines 221-229: the artifact is written and the index is returned
SaveDirectoryIndex ==
  /\ pcMain = "indexing" /\ stack # << >> /\ Top.pc = "save"
  /\ LET dir_index == Top.dir_index
         index_file_path == dir_index.index_file_path
     IN \E writing \in IF OpenForWriteFails(disk, index_file_path) THEN {"blocked"}
                       ELSE Outcomes({"ok"}) :
          /\ faults' = faults + Cost(writing)
          /\ IF writing = "ok"
             THEN /\ disk' = WriteFile(disk, index_file_path, ModelDump(dir_index))
                  /\ written' = Append(written, index_file_path)
                  /\ Return(dir_index)
             ELSE /\ Raise("OutputPersistError")
                  /\ UNCHANGED <<disk, written, ret>>
  /\ UNCHANGED <<tree, generate_summaries, max_workers, batch, summary_cache,
                 repo_index, calls, failed,
                 io_failed, answered, run, previous,
                 upper_calls, agent>>

(***************************************************************************)
(* index_repository, lines 78-112.                                         *)
(***************************************************************************)
\* lines 78-90: the RepositoryIndex is created and _calculate_statistics runs
CalculateStatistics ==
  /\ pcMain = "statistics"
  /\ LET root_index == ret
         repo == NewRepositoryIndex(BaseName(RepoRoot), RepoRoot, OutputRoot,
                                    root_index.index_file_path)
         st == Traverse(root_index, disk)
     IN IF st.ok
        THEN /\ repo_index' = WithStatistics(repo, st)
             /\ pcMain' = "summary"
             /\ UNCHANGED <<stack, error>>
        ELSE /\ Raise("FileNotFoundError")
             /\ UNCHANGED repo_index
  /\ UNCHANGED <<tree, generate_summaries, max_workers, ret, batch,
                 summary_cache, disk, faults, calls, written, failed,
                 io_failed, answered, run, previous,
                 upper_calls, agent>>

\* lines 92-95, with _generate_repo_summary
RepositorySummary ==
  /\ pcMain = "summary"
  /\ IF generate_summaries
     THEN \E resp \in Outcomes(RepoResponses) :
            /\ faults' = faults + Cost(resp)
            /\ failed' = failed \cup Failure("repository", RepoRoot, resp)
            /\ upper_calls' = upper_calls \cup
                 {[level |-> "repository", path |-> RepoRoot]}
            /\ repo_index' = [repo_index EXCEPT
                 !.summary = GenerateRepoSummary(repo_index, resp),
                 !.architecture_description =
                    <<"Distributed index with", repo_index.total_directories,
                      "directories">>]
     ELSE UNCHANGED <<repo_index, faults, failed, upper_calls>>
  /\ pcMain' = "save"
  /\ UNCHANGED <<tree, generate_summaries, max_workers, stack, ret, batch,
                 summary_cache, disk, error, calls, written,
                 io_failed, answered, run, previous, agent>>

\* lines 97-100: repo_index.json is written
SaveRepositoryIndex ==
  /\ pcMain = "save"
  /\ LET repo_index_path == RepoIndexPath(OutputRoot)
     IN \E writing \in IF OpenForWriteFails(disk, repo_index_path) THEN {"blocked"}
                       ELSE Outcomes({"ok"}) :
          /\ faults' = faults + Cost(writing)
          /\ IF writing = "ok"
             THEN /\ disk' = WriteFile(disk, repo_index_path, repo_index)
                  /\ written' = Append(written, repo_index_path)
                  /\ pcMain' = "report"
                  /\ UNCHANGED <<stack, error>>
             ELSE /\ Raise("OutputPersistError")
                  /\ UNCHANGED <<disk, written>>
  /\ UNCHANGED <<tree, generate_summaries, max_workers, ret, batch,
                 summary_cache, repo_index, calls, failed,
                 io_failed, answered, run, previous,
                 upper_calls, agent>>

\* the names bound in the scope of index_repository when line 102 is reached:
\* its parameters and the locals assigned on lines 70-99
IndexRepositoryNames ==
  {"self", "repo_path", "output_dir", "generate_summaries", "root_index",
   "repo_name", "repo_index", "repo_index_path", "f"}
\* the names the f-strings of lines 102-110 read
ReportNames == {"repo_index_path", "index_dir", "repo_index"}
\* the names bound at module level (the imports of lines 6-16 and the class)
ModuleNames ==
  {"os", "ast", "json", "hashlib", "Optional", "List", "ThreadPoolExecutor",
   "as_completed", "OpenAI", "CodeLanguage", "CodeElementType",
   "CodeElementMetadata", "FileMetadata", "SubdirectoryReference",
   "DirectoryIndex", "RepositoryIndex", "DistributedCodeIndexer"}
ReportRaisesNameError == ~(ReportNames \subseteq IndexRepositoryNames \cup ModuleNames)

\* lines 102-112: the report is printed and repo_index is returned
PrintReportAndReturn ==
  /\ pcMain = "report"
  /\ IF ReportRaisesNameError
     THEN Raise("NameError")
     ELSE /\ pcMain' = "done"
          /\ UNCHANGED <<stack, error>>
  /\ UNCHANGED <<tree, generate_summaries, max_workers, ret, batch,
                 summary_cache, repo_index, disk, faults, calls, written, failed,
                 io_failed, answered, run, previous,
                 upper_calls, agent>>

Next ==
  \/ IndexRepositoryStart
  \/ EnterDirectory
  \/ IndexFileItem
  \/ FilesDone
  \/ SubdirItem
  \/ AppendSubdirRef
  \/ Aggregate
  \/ BatchSubmit
  \/ WorkerStart
  \/ WorkerFinish
  \/ CollectResult
  \/ BatchJoin
  \/ DirectorySummary
  \/ SaveDirectoryIndex
  \/ CalculateStatistics
  \/ RepositorySummary
  \/ SaveRepositoryIndex
  \/ PrintReportAndReturn

Spec == Init /\ [][Next]_vars

SpecLarge == InitLarge /\ [][Next]_vars

(***************************************************************************)
(* DistributedCodeAgent.query and the bash tool of distributed_agent.py.   *)
(* Queries may be made one after the other or from several threads, of one *)
(* agent or of several: _files_investigated belongs to the module.         *)
(***************************************************************************)
\* "if file_path not in _files_investigated: _files_investigated.append(...)"
TrackFile(list, file_path) ==
  IF \E k \in 1..Len(list) : list[k] = file_path THEN list
  ELSE Append(list, file_path)

\* query, lines 444-445: the global is bound to a new empty list
QueryStart ==
  \E q \in Queries :
    /\ agent.pc[q] = "idle"
    /\ agent' = [agent EXCEPT !.pc[q] = "running",
                              !.lists = Append(@, << >>),
                              !.global = Len(agent.lists) + 1]
    /\ UNCHANGED <<tree, generate_summaries, max_workers, pcMain, stack, ret, batch,
                   summary_cache, repo_index, disk, error, faults, calls, failed,
                   written, io_failed, answered, run, previous, upper_calls>>

\* bash, lines 57-74, called by the graph of a running query with "cat <file>.py"
BashCat ==
  \E q \in Queries : \E file_path \in AgentFiles :
    /\ agent.pc[q] = "running"
    /\ Len(agent.reads[q]) < MaxReads
    /\ agent' = [agent EXCEPT !.lists[agent.global] = TrackFile(@, file_path),
                              !.reads[q] = Append(@, file_path)]
    /\ UNCHANGED <<tree, generate_summaries, max_workers, pcMain, stack, ret, batch,
                   summary_cache, repo_index, disk, error, faults, calls, failed,
                   written, io_failed, answered, run, previous, upper_calls>>

\* query, line 479 and the return: files_investigated is the global's list
QueryReturn ==
  \E q \in Queries :
    /\ agent.pc[q] = "running"
    /\ agent' = [agent EXCEPT !.pc[q] = "done", !.result[q] = agent.global]
    /\ UNCHANGED <<tree, generate_summaries, max_workers, pcMain, stack, ret, batch,
                   summary_cache, repo_index, disk, error, faults, calls, failed,
                   written, io_failed, answered, run, previous, upper_calls>>

NextAgent == QueryStart \/ BashCat \/ QueryReturn

\* the agent is followed next to an indexer that is not running
InitAgent ==
  /\ tree = [dirs |-> {<< >>}, files |-> [d \in {<< >>} |-> << >>]]
  /\ generate_summaries = FALSE
  /\ max_workers = 1
  /\ Constructed

SpecAgent == InitAgent /\ [][NextAgent]_vars

(***************************************************************************)
(* A backend that hangs.  chat.completions.create is called without a      *)
(* timeout (lines 576-581) and as_completed and future.result() are called *)
(* without one (lines 546-547): a call the backend never answers keeps its *)
(* worker for ever and is never yielded to the main thread.  The program   *)
(* takes a step whenever it can take one.                                  *)
(***************************************************************************)
CallNeverReturns ==
  /\ pcMain = "indexing" /\ stack # << >> /\ Top.pc = "pool"
  /\ faults < MaxFaults
  /\ \E k \in batch.running :
       /\ FileNeedsBackend(Top.dir_index.files[k])
       /\ batch' = [batch EXCEPT !.running = @ \ {k}, !.hung = @ \cup {k}]
  /\ faults' = faults + 1
  /\ UNCHANGED <<tree, generate_summaries, max_workers, pcMain, stack, ret,
                 summary_cache, repo_index, disk, error, calls, written, failed,
                 io_failed, answered, run, previous,
                 upper_calls, agent>>

NextHang == Next \/ CallNeverReturns

SpecHang == Init /\ [][NextHang]_vars /\ WF_vars(Next)

(***************************************************************************)
(* A second call of index_repository on the same indexer, with the same    *)
(* arguments and on the unchanged tree: self.summary_cache and the output  *)
(* directory are as the first call left them.  (A caller gets to it by     *)
(* catching the exception the first call ended with.)                      *)
(***************************************************************************)
\* the summary each persisted FileRecord carries, by file path
PersistedSummaries ==
  LET recs == UNION { { A.files[k] : k \in 1..Len(A.files) } :
                      A \in { disk.files[q] :
                                q \in { r \in DOMAIN disk.files :
                                          disk.files[r].kind = "dir" } } }
  IN [q \in { f.file_path : f \in recs } |->
        (CHOOSE f \in recs : f.file_path = q).summary]

IndexRepositoryAgain ==
  /\ pcMain = "done" /\ run = 1
  /\ run' = run + 1
  /\ previous' = PersistedSummaries
  /\ pcMain' = "start"
  /\ stack' = << >>
  /\ ret' = NoIndex
  /\ batch' = NoBatch
  /\ repo_index' = NoIndex
  /\ error' = "none"
  /\ UNCHANGED <<tree, generate_summaries, max_workers, summary_cache, disk, faults,
                 calls, failed, written, io_failed, answered,
                 upper_calls, agent>>

NextRerun == Next \/ IndexRepositoryAgain

\* the two calls are followed on the trees of fewer than MaxDirs directories,
\* with summaries asked for
InitRerun ==
  /\ Init
  /\ Cardinality(tree.dirs) < MaxDirs
  /\ generate_summaries

SpecRerun == InitRerun /\ [][NextRerun]_vars

(***************************************************************************)
(* What the properties below speak about.                                  *)
(***************************************************************************)
IsPrefix(a, b) == Len(a) <= Len(b) /\ SubSeq(b, 1, Len(a)) = a

\* the directory artifacts on the disk
DirArtifactPaths == { p \in DOMAIN disk.files : disk.files[p].kind = "dir" }
DirArtifacts == { disk.files[p] : p \in DirArtifactPaths }

\* every DirectoryIndex _index_directory has returned so far, as dumped
ProducedIndexes ==
  DirArtifacts \cup (IF ret = NoIndex THEN {} ELSE {ModelDump(ret)})

\* the artifacts of the directories at or below dir_path
ArtifactsBelow(dir_path) == { A \in DirArtifacts : IsPrefix(dir_path, A.dir_path) }

RECURSIVE NumFiles(_)
\* the files recorded in the artifacts of S
NumFiles(S) ==
  IF S = {} THEN 0
  ELSE LET A == CHOOSE y \in S : TRUE IN Len(A.files) + NumFiles(S \ {A})

RECURSIVE NumLines(_)
\* the lines of the files recorded in the artifacts of S
NumLines(S) ==
  IF S = {} THEN 0
  ELSE LET A == CHOOSE y \in S : TRUE
       IN SumOver(A.files, "total_lines", 1) + NumLines(S \ {A})

\* the FileRecords of all artifacts
FileRecords ==
  UNION { { A.files[k] : k \in 1..Len(A.files) } : A \in DirArtifacts }

\* the frames whose directory is past its loop over the subdirectories
AggregatingFrames ==
  { n \in 1..Len(stack) : stack[n].pc \in {"batch", "pool", "dirsummary", "save"} }

\* the frames past the barrier of their batch
JoinedFrames == { n \in 1..Len(stack) : stack[n].pc \in {"dirsummary", "save"} }

(***************************************************************************)
(* C1: every DirectoryIndex D that _index_directory produced has           *)
(* total_file_count(D) = direct_file_count(D) + the sum of file_count over *)
(* its references, every reference carries the total_file_count of the     *)
(* child it points to, and total_file_count(D) is the number of files      *)
(* recorded in the artifacts of D's whole subtree.                         *)
(***************************************************************************)
C1_TotalFileCount ==
  \A D \in ProducedIndexes :
    /\ D.total_file_count
         = D.direct_file_count + SumOver(D.subdirectories, "file_count", 1)
    /\ \A k \in 1..Len(D.subdirectories) :
         LET r == D.subdirectories[k]
         IN r.file_count = IF r.index_file_path \in DirArtifactPaths
                           THEN disk.files[r.index_file_path].total_file_count
                           ELSE 0
    /\ D.total_file_count = NumFiles(ArtifactsBelow(D.dir_path))

\* the root's total counts a file of its own and one two levels further down
C1_Witness ==
  /\ IndexFilePath(OutputRoot, <<".">>) \in DirArtifactPaths
  /\ LET D == disk.files[IndexFilePath(OutputRoot, <<".">>)]
     IN /\ D.direct_file_count = 1
        /\ D.total_file_count = 2
        /\ Len(D.subdirectories) = 1
        /\ disk.files[D.subdirectories[1].index_file_path].direct_file_count = 0
        /\ disk.files[D.subdirectories[1].index_file_path].total_file_count = 1

(***************************************************************************)
(* C2: every DirectoryIndex D has total_lines(D) = the lines of its own    *)
(* files plus the transitive total_lines of its child directories, i.e.    *)
(* the lines of every file recorded in D's whole subtree.                  *)
(***************************************************************************)
C2_TotalLinesTransitive ==
  \A D \in ProducedIndexes :
    D.total_lines = NumLines(ArtifactsBelow(D.dir_path))

(***************************************************************************)
(* C3: once the statistics pass has run, the counters of the               *)
(* RepositoryIndex are those of a traversal that loads the persisted root  *)
(* artifact and follows every reference to the persisted child artifacts.  *)
(***************************************************************************)
C3_StatisticsFromDisk ==
  repo_index # NoIndex =>
    /\ repo_index.root_index_path \in DirArtifactPaths
    /\ LET st == Traverse(LoadDirectoryIndex(disk.files[repo_index.root_index_path]),
                          disk)
       IN /\ st.ok
          /\ repo_index.total_directories = st.total_directories
          /\ repo_index.total_files = st.total_files
          /\ repo_index.total_lines = st.total_lines
          /\ repo_index.total_classes = st.total_classes
          /\ repo_index.total_functions = st.total_functions
          /\ repo_index.total_methods = st.total_methods

(***************************************************************************)
(* C4: a run in which no write of an artifact fails ends normally, with    *)
(* the RepositoryIndex persisted at <output_root>/repo_index.json and      *)
(* returned to the caller.                                                 *)
(***************************************************************************)
C4_EndsNormally ==
  (pcMain = "done" /\ error # "OutputPersistError") =>
    /\ error = "none"
    /\ RepoIndexPath(OutputRoot) \in DOMAIN disk.files
    /\ disk.files[RepoIndexPath(OutputRoot)] = repo_index

(***************************************************************************)
(* C5: when the aggregation of a directory D starts, and from then on      *)
(* until D's artifact is written, the artifact of every subdirectory that  *)
(* D holds a reference to is on the disk.                                  *)
(***************************************************************************)
C5_ChildArtifactsFirst ==
  \A n \in AggregatingFrames :
    \A k \in 1..Len(stack[n].dir_index.subdirectories) :
      stack[n].dir_index.subdirectories[k].index_file_path \in DirArtifactPaths

(***************************************************************************)
(* C6: the artifact of the directory with relative path r is at            *)
(* <output_root>/r/index.json; distinct directories have distinct artifact *)
(* paths; no artifact path coincides with <output_root>/repo_index.json or *)
(* lies below it (which would make that path a directory); and every       *)
(* index_file_path of an index or of a reference is that path.             *)
(***************************************************************************)
MirrorPath(relative_path) ==
  IF relative_path = <<".">> THEN OutputRoot \o <<"index.json">>
  ELSE OutputRoot \o relative_path \o <<"index.json">>

\* every DirectoryIndex in existence: in a frame, returned, or on the disk
AllIndexes ==
  ProducedIndexes
    \cup { ModelDump(stack[n].dir_index) :
             n \in { m \in 1..Len(stack) : stack[m].dir_index # NoIndex } }

C6_MirroredPaths ==
  /\ \A p \in DirArtifactPaths : p = MirrorPath(disk.files[p].relative_path)
  /\ \A D \in AllIndexes :
       /\ D.index_file_path = MirrorPath(D.relative_path)
       /\ ~IsPrefix(RepoIndexPath(OutputRoot), D.index_file_path)
       /\ \A k \in 1..Len(D.subdirectories) :
            D.subdirectories[k].index_file_path
              = MirrorPath(D.subdirectories[k].relative_path)
       /\ \A E \in AllIndexes :
            D.relative_path # E.relative_path => D.index_file_path # E.index_file_path

(***************************************************************************)
(* C7: within the batch of one directory at most one call of the backend   *)
(* is made per content digest.                                             *)
(***************************************************************************)
C7_OneCallPerDigest ==
  \A c1, c2 \in calls :
    ( /\ c1.backend /\ c2.backend
      /\ DirName(c1.file_path) = DirName(c2.file_path)
      /\ c1.digest = c2.digest ) => c1 = c2

(***************************************************************************)
(* C8: when a run with summaries enabled has persisted repo_index.json,    *)
(* any two FileRecords with the same content digest carry the same         *)
(* summary, which is the entry of the summary cache for that digest.       *)
(***************************************************************************)
DigestOf(f) == ContentDigest(KindOf(tree, f.file_path))

C8_SameDigestSameSummary ==
  ( /\ generate_summaries
    /\ RepoIndexPath(OutputRoot) \in DOMAIN disk.files ) =>
    \A f, g \in FileRecords :
      DigestOf(f) = DigestOf(g) =>
        /\ f.summary = g.summary
        /\ DigestOf(f) \in DOMAIN summary_cache
             => f.summary = summary_cache[DigestOf(f)]

(***************************************************************************)
(* C9: no call of the backend is made for a file whose content digest was  *)
(* a key of the summary cache when the batch of its directory was          *)
(* submitted.                                                              *)
(***************************************************************************)
C9_NoCallOnCachedDigest == \A c \in calls : c.backend => ~c.cached

(***************************************************************************)
(* C10: a failure of the backend never ends the run: the step in which it  *)
(* happens leaves index_repository running, the record concerned gets the  *)
(* fallback text made of its structural counts, and past the barrier of a  *)
(* batch every file of the directory has a summary.                        *)
(***************************************************************************)
FailedFiles == { x.path : x \in { y \in failed : y.level = "file" } }
FailedDirs == { x.path : x \in { y \in failed : y.level = "directory" } }

\* the file records whose batch result has been stored
SettledFiles ==
  FileRecords \cup
    UNION { { DumpFile(stack[n].dir_index.files[k]) :
                k \in 1..Len(stack[n].dir_index.files) } : n \in JoinedFrames }

\* the directory indexes whose summary step is over
SummarizedIndexes ==
  DirArtifacts \cup
    { ModelDump(stack[n].dir_index) : n \in { m \in 1..Len(stack) : stack[m].pc = "save" } }

C10_FallbackInPlace ==
  /\ \A f \in SettledFiles :
       /\ generate_summaries => f.summary # None
       /\ f.file_path \in FailedFiles
            => f.summary = <<"Contains", Len(f.elements), "code elements">>
  /\ \A D \in SummarizedIndexes :
       D.dir_path \in FailedDirs
         => D.summary = <<"Directory with", Len(D.files), "files and",
                          Len(D.subdirectories), "subdirectories">>
  /\ (repo_index # NoIndex /\ \E x \in failed : x.level = "repository")
       => repo_index.summary
            = <<"A python repository with", repo_index.total_files, "files">>

C10_FailureStaysLocal ==
  /\ [] C10_FallbackInPlace
  /\ [][ failed' # failed => (pcMain' # "done" /\ error' = "none") ]_vars

\* one file of a batch of two failed and has its fallback, the other file has
\* the text the backend answered, and both are in the persisted artifact
C10_Witness ==
  \E A \in DirArtifacts :
    /\ Len(A.files) = 2
    /\ A.files[1].file_path \in FailedFiles
    /\ A.files[1].summary = <<"Contains", 2, "code elements">>
    /\ A.files[2].summary = <<"llm", "s1">>

(***************************************************************************)
(* C11: when the listing of a directory C fails, every reference to C      *)
(* carries zero files, no file of C or below is recorded anywhere, and a   *)
(* run that no failed write and no parser exception ended has gone through *)
(* the statistics pass and has persisted its RepositoryIndex.              *)
(***************************************************************************)
Unlisted == { x.path : x \in { y \in io_failed : y.op = "listdir" } }

\* the references held by the indexes in existence
AllReferences ==
  UNION { { D.subdirectories[k] : k \in 1..Len(D.subdirectories) } : D \in AllIndexes }

C11_UnreadableDirectorySoft ==
  \A C \in Unlisted :
    /\ \A r \in AllReferences : r.dir_path = C => r.file_count = 0 /\ r.subdir_count = 0
    /\ \A D \in AllIndexes : IsPrefix(C, D.dir_path) => D.files = << >>
    /\ (pcMain = "done" /\ error \in {"none", "NameError", "FileNotFoundError"})
         => /\ repo_index # NoIndex
            /\ RepoIndexPath(OutputRoot) \in DOMAIN disk.files

(***************************************************************************)
(* C12: a file whose content ast.parse rejects is recorded by its          *)
(* directory with no elements and is counted in direct_file_count, and no  *)
(* exception of the parser ends the run.                                   *)
(***************************************************************************)
\* the indexes whose loop over the files is over
PastFiles ==
  DirArtifacts \cup
    { ModelDump(stack[n].dir_index) :
        n \in { m \in 1..Len(stack) : stack[m].pc \notin {"enter", "files"} } }

\* the paths of the source files of the directory dir_path
SourceFiles(dir_path) ==
  { Join(dir_path, <<FileNames[j]>>) : j \in 1..Len(tree.files[RelKey(dir_path)]) }

Unread == { x.path : x \in { y \in io_failed : y.op = "read" } }

C12_ParseFailureSoft ==
  /\ error \notin { ParseError(k) : k \in Kinds } \ {"none"}
  /\ \A D \in PastFiles :
       /\ D.direct_file_count = Len(D.files)
       /\ \A p \in SourceFiles(D.dir_path) \ Unread :
            ~Parses(KindOf(tree, p)) =>
              \E k \in 1..Len(D.files) :
                D.files[k].file_path = p /\ D.files[k].elements = << >>

(***************************************************************************)
(* C13: a source file whose open or read fails is recorded by no index;    *)
(* its directory records exactly its other files, counts only those in     *)
(* direct_file_count, total_file_count and total_lines, still refers to    *)
(* every subdirectory, and its artifact is written unless a write fails or *)
(* a parser exception ends the run.                                        *)
(***************************************************************************)
RECURSIVE SourceLines(_)
\* the lines of the source files of the set S of paths
SourceLines(S) ==
  IF S = {} THEN 0
  ELSE LET p == CHOOSE q \in S : TRUE
       IN ContentLines(KindOf(tree, p)) + SourceLines(S \ {p})

\* the subdirectories of dir_path the traversal does not ignore
SourceSubdirs(dir_path) ==
  { Join(dir_path, <<n>>) :
      n \in { m \in AllNames : ~IsIgnored(m) /\ IsDir(tree, Join(dir_path, <<m>>)) } }

RecordedPaths(D) == { D.files[k].file_path : k \in 1..Len(D.files) }
ReferredPaths(D) == { D.subdirectories[k].dir_path : k \in 1..Len(D.subdirectories) }

\* the traversal is over and neither a write nor the parser ended it
IndexingCompleted ==
  \/ pcMain \in {"statistics", "summary", "save", "report"}
  \/ pcMain = "done" /\ error \in {"none", "NameError", "FileNotFoundError"}

C13_UnreadableFileSkipped ==
  \A p \in Unread :
    /\ \A D \in AllIndexes : p \notin RecordedPaths(D)
    /\ \A D \in PastFiles :
         D.dir_path = DirName(p) =>
           /\ RecordedPaths(D) = SourceFiles(D.dir_path) \ Unread
           /\ Len(D.files) = Cardinality(RecordedPaths(D))
           /\ D.direct_file_count = Cardinality(SourceFiles(D.dir_path) \ Unread)
    /\ \A D \in DirArtifacts :
         D.dir_path = DirName(p) =>
           /\ D.total_lines = SourceLines(SourceFiles(D.dir_path) \ Unread)
           /\ D.total_file_count
                = Cardinality(SourceFiles(D.dir_path) \ Unread)
                    + SumOver(D.subdirectories, "file_count", 1)
           /\ ReferredPaths(D) = SourceSubdirs(D.dir_path)
    /\ IndexingCompleted =>
         IndexFilePath(OutputRoot, RelPath(DirName(p), RepoRoot)) \in DirArtifactPaths

\* the first of two files could not be read: the artifact of the directory
\* records the second alone, counts one file and refers to its subdirectory
C13_Witness ==
  \E p \in Unread : \E D \in DirArtifacts :
    /\ D.dir_path = DirName(p)
    /\ BaseName(p) = FileNames[1]
    /\ Len(D.files) = 1 /\ BaseName(D.files[1].file_path) = FileNames[2]
    /\ D.direct_file_count = 1
    /\ Len(D.subdirectories) = 1

(***************************************************************************)
(* C14: the statistics pass that meets a reference whose artifact is not   *)
(* on the disk ends index_repository with FileNotFoundError and leaves no  *)
(* RepositoryIndex; a RepositoryIndex with counters exists only when the   *)
(* artifact of every reference is on the disk.                             *)
(***************************************************************************)
MissingReferences == { r \in AllReferences : r.index_file_path \notin DirArtifactPaths }

C14_NoSilentZero == repo_index # NoIndex => MissingReferences = {}

C14_MissingArtifactDetected ==
  /\ [] C14_NoSilentZero
  /\ [][ (pcMain = "statistics" /\ MissingReferences # {})
           => (pcMain' = "done" /\ error' = "FileNotFoundError"
               /\ repo_index' = NoIndex) ]_vars

\* the pass has ended with FileNotFoundError on the reference to a directory
\* whose artifact is missing, next to a root that recorded a file
C14_Witness ==
  /\ pcMain = "done" /\ error = "FileNotFoundError"
  /\ repo_index = NoIndex
  /\ MissingReferences # {}
  /\ \E D \in DirArtifacts : D.relative_path = <<".">> /\ D.direct_file_count = 1

(***************************************************************************)
(* C15: the RepositoryIndex counts, over the files recorded by all         *)
(* artifacts, the top-level classes in total_classes, the methods of those *)
(* classes in total_methods and the top-level functions in                 *)
(* total_functions, the files of nested directories included.              *)
(***************************************************************************)
\* what a source file of content kind k holds
ClassesIn(k) == IF k = "cls" THEN 1 ELSE 0
MethodsIn(k) == IF k = "cls" THEN 2 ELSE 0
FunctionsIn(k) == IF k \in {"cls", "fn"} THEN 1 ELSE 0

RECURSIVE SourceClasses(_)
SourceClasses(S) ==
  IF S = {} THEN 0
  ELSE LET f == CHOOSE g \in S : TRUE
       IN ClassesIn(KindOf(tree, f.file_path)) + SourceClasses(S \ {f})

RECURSIVE SourceMethods(_)
SourceMethods(S) ==
  IF S = {} THEN 0
  ELSE LET f == CHOOSE g \in S : TRUE
       IN MethodsIn(KindOf(tree, f.file_path)) + SourceMethods(S \ {f})

RECURSIVE SourceFunctions(_)
SourceFunctions(S) ==
  IF S = {} THEN 0
  ELSE LET f == CHOOSE g \in S : TRUE
       IN FunctionsIn(KindOf(tree, f.file_path)) + SourceFunctions(S \ {f})

C15_ElementTotals ==
  repo_index # NoIndex =>
    /\ repo_index.total_classes = SourceClasses(FileRecords)
    /\ repo_index.total_methods = SourceMethods(FileRecords)
    /\ repo_index.total_functions = SourceFunctions(FileRecords)

\* a class with two methods and a function in a directory below the root, one
\* function in a directory below that one: 1 class, 2 methods, 2 functions
C15_Witness ==
  /\ repo_index # NoIndex
  /\ repo_index.total_classes = 1
  /\ repo_index.total_methods = 2
  /\ repo_index.total_functions = 2
  /\ \E A, B \in DirArtifacts :
       /\ A.relative_path # <<".">>
       /\ DirName(B.dir_path) = A.dir_path
       /\ Len(A.files) = 1 /\ KindOf(tree, A.files[1].file_path) = "cls"
       /\ Len(B.files) = 1 /\ KindOf(tree, B.files[1].file_path) = "fn"

(***************************************************************************)
(* C16: in a second call of index_repository on the same indexer and the   *)
(* unchanged tree, with a generator that answers the same prompt the same  *)
(* way, every file gets the summary the first call persisted for it.       *)
(***************************************************************************)
C16_WarmCacheSameSummaries ==
  run = 2 =>
    \A f \in SettledFiles :
      f.file_path \in DOMAIN previous => f.summary = previous[f.file_path]

(***************************************************************************)
(* C17: at most max_workers file-summary calls are in flight; the calls in *)
(* flight are calls for files of the directory whose batch the innermost   *)
(* active call of _index_directory is waiting for; and a step taken while  *)
(* a call is in flight writes nothing, enters and leaves no directory and  *)
(* changes no index but the summaries of that directory's files.           *)
(***************************************************************************)
InFlight == batch.running \cup batch.hung

C17_PoolBounded ==
  /\ Cardinality(InFlight) <= max_workers
  /\ batch # NoBatch =>
       /\ pcMain = "indexing" /\ stack # << >> /\ Top.pc = "pool"
       /\ InFlight \subseteq 1..Len(Top.dir_index.files)
       /\ \A k \in InFlight : \E c \in calls :
            c.file_path = Top.dir_index.files[k].file_path

\* dir_index with the summaries of its files blanked
SummariesBlanked(dir_index) ==
  [dir_index EXCEPT !.files = [k \in DOMAIN @ |-> [@[k] EXCEPT !.summary = None]]]

C17_OneBatchAtATime ==
  /\ [] C17_PoolBounded
  /\ [][ InFlight # {} =>
           /\ disk' = disk /\ written' = written /\ ret' = ret
           /\ repo_index' = repo_index /\ pcMain' = pcMain
           /\ Len(stack') = Len(stack)
           /\ \A n \in 1..(Len(stack) - 1) : stack'[n] = stack[n]
           /\ stack'[Len(stack)].pc = "pool"
           /\ SummariesBlanked(stack'[Len(stack)].dir_index)
                = SummariesBlanked(Top.dir_index) ]_vars

\* every worker of the pool is busy and a submitted call is waiting
C17_Witness ==
  /\ Cardinality(batch.running) = max_workers
  /\ batch.queue # << >>

(***************************************************************************)
(* C18: the batch of a directory ends only when every submitted call has   *)
(* been collected, and from then on (so when the directory summary is      *)
(* made) every submitted file carries the text made from the answer the    *)
(* backend gave to the call for that very file, or the fallback for that   *)
(* file if its call failed, in whatever order the workers ended.           *)
(***************************************************************************)
\* every submitted call has returned and has been yielded to the main thread
BatchDone ==
  /\ batch # NoBatch
  /\ batch.queue = << >> /\ batch.running = {} /\ batch.hung = {}
  /\ batch.finished = {}

\* the summary owed to the file record f, given what its own call was answered
OwnSummary(f) ==
  IF f.elements = << >> THEN <<"Python file with", f.total_lines, "lines">>
  ELSE IF answered[f.file_path] = "fail"
       THEN <<"Contains", Len(f.elements), "code elements">>
  ELSE IF answered[f.file_path] = "" THEN <<"">>
  ELSE <<"llm", answered[f.file_path]>>

Submitted(f) == \E c \in calls : c.file_path = f.file_path

C18_SummariesAtBarrier ==
  /\ BatchDone =>
       \A j \in 1..Len(batch.todo) :
         LET f == Top.dir_index.files[batch.todo[j]]
         IN Submitted(f) /\ f.summary = OwnSummary(f)
  /\ \A n \in JoinedFrames :
       \A k \in 1..Len(stack[n].dir_index.files) :
         LET f == stack[n].dir_index.files[k]
         IN Submitted(f) => f.summary = OwnSummary(f)

C18_BarrierBeforeDirectorySummary ==
  /\ [] C18_SummariesAtBarrier
  /\ [][ (batch # NoBatch /\ batch' = NoBatch) => BatchDone ]_vars

\* two files of one directory got different answers and the first file's
\* result was collected last (the cache entry of their digest is its text)
C18_Witness ==
  \E n \in JoinedFrames :
    LET files == stack[n].dir_index.files
    IN /\ Len(files) = 2
       /\ Submitted(files[1]) /\ Submitted(files[2])
       /\ files[1].summary = <<"llm", "s1">>
       /\ files[2].summary = <<"llm", "s2">>
       /\ DigestOf(files[1]) \in DOMAIN summary_cache
       /\ summary_cache[DigestOf(files[1])] = <<"llm", "s1">>

(***************************************************************************)
(* C19: a file-level call the backend never answers is turned into a       *)
(* fallback summary by a timeout, so that the batch passes its barrier and *)
(* index_repository comes to an end.                                       *)
(***************************************************************************)
C19_HungCallTimesOut == (batch.hung # {}) ~> (batch.hung = {} /\ pcMain = "done")

(***************************************************************************)
(* C20: when every call of a batch has been collected, the summary cache   *)
(* holds an entry for every digest the batch submitted and every entry it  *)
(* held when the batch was submitted is still there with the same text.    *)
(***************************************************************************)
C20_CacheKeptAcrossBatch ==
  BatchDone =>
    /\ \A j \in 1..Len(batch.todo) :
         LET f == Top.dir_index.files[batch.todo[j]]
         IN f.file_hash # None => f.file_hash \in DOMAIN summary_cache
    /\ \A h \in DOMAIN batch.before :
         h \in DOMAIN summary_cache /\ summary_cache[h] = batch.before[h]

(***************************************************************************)
(* C26: the files_investigated a query returns holds exactly the files its *)
(* own calls of the bash tool read, each once, whatever other queries ran  *)
(* before it or run at the same time.                                      *)
(***************************************************************************)
RECURSIVE EachOnce(_)
\* seq without the repetitions of its entries
EachOnce(seq) ==
  IF seq = << >> THEN << >>
  ELSE TrackFile(EachOnce(SubSeq(seq, 1, Len(seq) - 1)), seq[Len(seq)])

C26_FilesInvestigatedPerQuery ==
  \A q \in Queries :
    agent.pc[q] = "done" =>
      agent.lists[agent.result[q]] = EachOnce(agent.reads[q])

(***************************************************************************)
(* C21: the traversal is strictly post-order: no step of the processing of *)
(* a directory D (the extraction of its files and their cache lookups      *)
(* included) is taken before the call for every subdirectory of D that is  *)
(* not ignored has returned.                                               *)
(***************************************************************************)
\* the subdirectories of the frame n whose call has returned
ReturnedSubdirs(n) ==
  ReferredPaths(stack[n].dir_index) \cup
    (IF n = Len(stack) /\ stack[n].pc = "ref" /\ ret # NoIndex THEN {ret.dir_path}
     ELSE {})

C21_StrictPostOrder ==
  \A n \in 1..Len(stack) :
    (stack[n].pc # "enter" /\ stack[n].dir_index.files # << >>)
      => SourceSubdirs(stack[n].dir_path) \subseteq ReturnedSubdirs(n)

(***************************************************************************)
(* C22: with summaries enabled, an index that is past the summary step     *)
(* carries a directory summary exactly when it holds at least one file or  *)
(* at least one reference to a subdirectory; a directory with neither is   *)
(* persisted with the summary None.                                        *)
(***************************************************************************)
C22_SummaryIffContent ==
  generate_summaries =>
    \A D \in SummarizedIndexes :
      D.summary # None <=> (D.files # << >> \/ D.subdirectories # << >>)

\* an empty directory is persisted without a summary, next to the artifact of
\* its parent, which holds no file and has a summary for its one reference
C22_Witness ==
  /\ generate_summaries
  /\ \E A, B \in DirArtifacts :
       /\ A.files = << >> /\ A.subdirectories = << >> /\ A.summary = None
       /\ B.files = << >> /\ ReferredPaths(B) = {A.dir_path}
       /\ B.summary = <<"Directory with", 0, "files">>

(***************************************************************************)
(* C23: the input of the summary of a directory is made of the summaries   *)
(* of its first ten files at most and of its first ten subdirectories at   *)
(* most, in the sorted order of the names.                                 *)
(***************************************************************************)
\* the entries of seq among its first ten that carry a summary
FirstTenWithSummary(seq) == SelectSeq(Take(seq, 10), LAMBDA x : Truthy(x.summary))

C23_FirstTenOfEach ==
  \A n \in 1..Len(stack) :
    stack[n].pc = "dirsummary" =>
      /\ DirFileSummaries(stack[n].dir_index)
           = FirstTenWithSummary(stack[n].dir_index.files)
      /\ DirSubdirSummaries(stack[n].dir_index)
           = FirstTenWithSummary(stack[n].dir_index.subdirectories)

(***************************************************************************)
(* C24: when every directory could be listed, the subdir_count of a        *)
(* reference to a directory C is the number of directories of the whole    *)
(* subtree of C, C not counted.                                            *)
(***************************************************************************)
\* the directories below dir_path, at any depth, that the traversal visits
SourceSubtree(dir_path) ==
  { Join(RepoRoot, d) :
      d \in { e \in tree.dirs :
                /\ IsPrefix(dir_path, Join(RepoRoot, e))
                /\ Join(RepoRoot, e) # dir_path
                /\ \A k \in 1..Len(e) : ~IsIgnored(e[k]) } }

C24_SubdirCountRecursive ==
  Unlisted = {} =>
    \A r \in AllReferences :
      r.subdir_count = Cardinality(SourceSubtree(r.dir_path))

(***************************************************************************)
(* C25: an index is handed to its parent only finished and persisted, and  *)
(* is not changed afterwards: for every reference, the artifact it names   *)
(* is on the disk, and the summary, the file_count and the index_file_path *)
(* of the reference are the summary, the total_file_count and the          *)
(* index_file_path of that artifact.                                       *)
(***************************************************************************)
C25_ReferenceMatchesArtifact ==
  \A r \in AllReferences :
    /\ r.index_file_path \in DirArtifactPaths
    /\ r.summary = disk.files[r.index_file_path].summary
    /\ r.file_count = disk.files[r.index_file_path].total_file_count
    /\ r.index_file_path = disk.files[r.index_file_path].index_file_path

(***************************************************************************)
(* C27: on a finite tree, with the output root outside the source tree, a  *)
(* traversal that neither a failed write nor a parser exception ended has  *)
(* written one artifact, once, for every directory that is not ignored     *)
(* and has none ignored above it, and no other directory artifact.         *)
(***************************************************************************)
\* the directories the traversal has to visit
DirsToVisit == {RepoRoot} \cup SourceSubtree(RepoRoot)

\* the number of times path was written
TimesWritten(path) == Cardinality({ k \in 1..Len(written) : written[k] = path })

C27_EveryDirectoryOnce ==
  IndexingCompleted =>
    /\ \A d \in DirsToVisit :
         TimesWritten(MirrorPath(RelPath(d, RepoRoot))) = 1
    /\ DirArtifactPaths
         = { MirrorPath(RelPath(d, RepoRoot)) : d \in DirsToVisit }

(***************************************************************************)
(* C28: once the statistics pass has completed, total_files is the         *)
(* total_file_count of the root index and total_directories is the number  *)
(* of directory artifacts written during the run, the root's included.     *)
(***************************************************************************)
\* the writes of directory artifacts, by their positions in the history
ArtifactWrites == { k \in 1..Len(written) : written[k] # RepoIndexPath(OutputRoot) }

C28_TotalsMatchArtifacts ==
  repo_index # NoIndex =>
    /\ repo_index.total_files = ret.total_file_count
    /\ repo_index.total_directories = Cardinality(ArtifactWrites)

(***************************************************************************)
(* C29: every file a batch submits carries a digest that is not None, and  *)
(* every key of the cache is the digest of the content of a source file.   *)
(***************************************************************************)
\* the digests of the contents of the .py files of the tree
SourceDigests ==
  { ContentDigest(KindOf(tree, p)) :
      p \in UNION { SourceFiles(Join(RepoRoot, d)) : d \in tree.dirs } }

C29_KeysAreContentDigests ==
  /\ \A n \in 1..Len(stack) :
       stack[n].pc = "pool" =>
         \A j \in 1..Len(batch.todo) :
           stack[n].dir_index.files[batch.todo[j]].file_hash # None
  /\ DOMAIN summary_cache \subseteq SourceDigests

(***************************************************************************)
(* C30: with generate_summaries false the generator is called at no level  *)
(* (file, directory, repository), no batch is formed, the cache stays      *)
(* empty, and the summary of every file, reference, directory index and    *)
(* of the repository index is None.                                        *)
(***************************************************************************)
C30_NothingGeneratedWhenDisabled ==
  ~generate_summaries =>
    /\ calls = {} /\ upper_calls = {} /\ answered = << >>
    /\ batch = NoBatch
    /\ summary_cache = << >>
    /\ \A D \in AllIndexes :
         /\ D.summary = None
         /\ \A k \in 1..Len(D.files) : D.files[k].summary = None
         /\ \A k \in 1..Len(D.subdirectories) : D.subdirectories[k].summary = None
    /\ repo_index # NoIndex => repo_index.summary = None

\* a run without summaries has persisted the repository index and the
\* artifact of a directory that holds a file and a subdirectory with a file
C30_Witness ==
  /\ ~generate_summaries
  /\ pcMain = "done"
  /\ RepoIndexPath(OutputRoot) \in DOMAIN disk.files
  /\ repo_index.total_files = 2
  /\ \E A \in DirArtifacts :
       /\ A.files # << >>
       /\ \E k \in 1..Len(A.subdirectories) : A.subdirectories[k].file_count = 1

====
